---- MODULE Spec2Model ----
(***************************************************************************)
(* A model of tonbo's write/merge pipeline: DB (src/src/lib.rs) with its   *)
(* Schema facade and Scan, the compactor and cleaner tasks DB::new spawns, *)
(* and the transactions DB::transaction opens.                             *)
(*                                                                         *)
(* lib.rs is modelled from the source.  Mutable, Immutable, Version,       *)
(* VersionSet, Cleaner, Compactor, MergeStream and Transaction are modules *)
(* of the repository that lib.rs only declares (mod inmem, version, ...);  *)
(* they are modelled from the design document (spec.md).                   *)
(***************************************************************************)
EXTENDS Integers, Sequences, FiniteSets, TLC

\* ------------------------------------------------------------ bounds
NumKeys == 2
MaxTs == 2
MaxWrites == 4
MaxFiles == 4
NumTxns == 2

\* ------------------------------------------------------------ DbOption
max_mem_table_size == 1
immutable_chunk_num == 1
major_threshold_with_sst_size == 2
level_sst_magnification == 2
max_sst_file_size == 1
\* The last level of the layout: levels are 0..MAX_LEVEL.
MAX_LEVEL == 1
\* The in-memory size estimate one record adds to a Mutable.
RecordSize == 1

Keys == 1..NumKeys
Timestamps == 0..MaxTs
Txns == 1..NumTxns
FileIds == 1..MaxFiles
Levels == 0..MAX_LEVEL

\* Option<Record>: None is the tombstone; Some(record) carries the number of
\* the write that produced it, so that two writes never carry the same record.
None == 0

\* ------------------------------------------------------------ Timestamped key
\* cmp(a, b) = cmp_key(a.k, b.k) then cmp(b.ts, a.ts)
TsLess(a, b) == a.k < b.k \/ (a.k = b.k /\ a.ts > b.ts)

SameKeyTs(a, b) == a.k = b.k /\ a.ts = b.ts

\* The entries of a sorted map, in iteration order.
RECURSIVE Ordered(_)
Ordered(S) ==
    IF S = {} THEN <<>>
    ELSE LET first == CHOOSE e \in S : \A o \in S \ {e} : TsLess(e, o)
         IN <<first>> \o Ordered(S \ {first})

\* std::ops::Bound over user keys
Unbounded == [kind |-> "Unbounded", key |-> 0]
Included(key) == [kind |-> "Included", key |-> key]

InRange(k, lower, upper) ==
    /\ (lower.kind = "Included" => k >= lower.key)
    /\ (upper.kind = "Included" => k <= upper.key)

\* ------------------------------------------------------------ Mutable
EmptyMutable == [data |-> {}, size |-> 0, wal |-> <<>>]

\* insert/remove: append the entry to the WAL with its log type, put
\* (key, ts) -> value into the sorted map (an equal (key, ts) is replaced)
\* and return the accumulated size.
Mutable_append(mutable, log_ty, k, ts, v) ==
    [data |-> {e \in mutable.data : ~(e.k = k /\ e.ts = ts)}
                 \cup {[k |-> k, ts |-> ts, v |-> v]},
     size |-> mutable.size + RecordSize,
     wal |-> Append(mutable.wal, [log_ty |-> log_ty, k |-> k, ts |-> ts])]

Mutable_insert(mutable, log_ty, record, ts) ==
    Mutable_append(mutable, log_ty, record.k, ts, record.v)

Mutable_remove(mutable, log_ty, key, ts) ==
    Mutable_append(mutable, log_ty, key, ts, None)

\* scan: ordered, entries with ts' > ts skipped, tombstones kept.
Mutable_scan(mutable, lower, upper, ts) ==
    Ordered({e \in mutable.data : InRange(e.k, lower, upper) /\ e.ts <= ts})

\* check_conflict: any entry with key == key and ts' > snapshot_ts
Mutable_check_conflict(mutable, key, ts) ==
    \E e \in mutable.data : e.k = key /\ e.ts > ts

\* ------------------------------------------------------------ Immutable
\* Built from a Mutable's sorted data: the rows in the same order.
Immutable_from(data) == Ordered(data)

RECURSIVE SelectRows(_, _, _, _)
SelectRows(rows, lower, upper, ts) ==
    IF rows = <<>> THEN <<>>
    ELSE LET e == Head(rows)
             rest == SelectRows(Tail(rows), lower, upper, ts)
         IN IF InRange(e.k, lower, upper) /\ e.ts <= ts THEN <<e>> \o rest ELSE rest

Immutable_scan(immutable, lower, upper, ts) == SelectRows(immutable, lower, upper, ts)

Immutable_check_conflict(immutable, key, ts) ==
    \E i \in 1..Len(immutable) : immutable[i].k = key /\ immutable[i].ts > ts

\* ------------------------------------------------------------ Version
\* segments: per level the ordered list of FileIds; level 0 newest first,
\* levels >= 1 sorted by min key.
EmptyVersion == [num |-> 0, levels |-> [l \in Levels |-> <<>>]]

VersionFiles(version) ==
    UNION {{version.levels[l][i] : i \in 1..Len(version.levels[l])} : l \in Levels}

RECURSIVE TakeRows(_, _)
TakeRows(rows, n) ==
    IF n = 0 \/ rows = <<>> THEN <<>> ELSE <<Head(rows)>> \o TakeRows(Tail(rows), n - 1)

NoLimit == 0 - 1

\* The scan of one SST: the rows of the file in the bounds visible at ts, at
\* most `limit` of them.
SsTable_scan(rows, lower, upper, ts, limit) ==
    LET sel == SelectRows(rows, lower, upper, ts)
    IN IF limit = NoLimit THEN sel ELSE TakeRows(sel, limit)

\* The concatenating iterator of a level >= 1: the scans of its segments one
\* after the other.
RECURSIVE LevelStream(_, _, _, _, _, _)
LevelStream(ids, store, lower, upper, ts, limit) ==
    IF ids = <<>> THEN <<>>
    ELSE SsTable_scan(store[Head(ids)], lower, upper, ts, limit)
            \o LevelStream(Tail(ids), store, lower, upper, ts, limit)

\* Version::streams: one stream per level-0 segment, one per deeper level.
Version_streams(version, store, lower, upper, ts, limit) ==
    [i \in 1..Len(version.levels[0]) |->
        SsTable_scan(store[version.levels[0][i]], lower, upper, ts, limit)]
    \o [l \in 1..MAX_LEVEL |->
        LevelStream(version.levels[l], store, lower, upper, ts, limit)]

\* ------------------------------------------------------------ MergeStream
\* At each step the smallest head is emitted, the earlier stream winning a
\* tie, and the other heads with the same (key, ts) are skipped.
RECURSIVE MergeStream_from_vec(_)
MergeStream_from_vec(streams) ==
    LET live == {i \in 1..Len(streams) : streams[i] # <<>>}
    IN IF live = {} THEN <<>>
       ELSE LET i == CHOOSE c \in live : \A o \in live \ {c} :
                        \/ TsLess(Head(streams[c]), Head(streams[o]))
                        \/ (SameKeyTs(Head(streams[c]), Head(streams[o])) /\ c < o)
                e == Head(streams[i])
                rest == [j \in 1..Len(streams) |->
                            IF streams[j] # <<>> /\ SameKeyTs(Head(streams[j]), e)
                            THEN Tail(streams[j]) ELSE streams[j]]
            IN CHOOSE merged \in {<<e>> \o MergeStream_from_vec(r) : r \in {rest}} : TRUE

\* ------------------------------------------------------------ Schema, Scan
EmptySchema == [mutable |-> EmptyMutable, immutables |-> <<>>]

\* The columns of the arrow schema of the record: _null, _ts, then the user
\* columns vstring (the key), vu32, vbool.
NumColumns == 5
EngineColumns == 2
UserColumns == 0..(NumColumns - EngineColumns - 1)
KeyColumn == 2
primary_key_index == 2

\* ProjectionMask over root columns: all of them, or those of the indices
\* given that the schema has.
ProjectionMask_all == 0..(NumColumns - 1)
ProjectionMask_roots(indices) ==
    {indices[i] : i \in 1..Len(indices)} \cap (0..(NumColumns - 1))

Scan_new(schema, lower, upper, ts, version, streams) ==
    [schema |-> schema, lower |-> lower, upper |-> upper, ts |-> ts,
     version |-> version, streams |-> streams, limit |-> NoLimit,
     projection |-> ProjectionMask_all]

\* Scan::projection without R::primary_key_index() in the columns it adds.
Scan_projection_NoKey(scan, projection) ==
    [scan EXCEPT !.projection =
        ProjectionMask_roots([i \in 1..Len(projection) |-> projection[i] + 2]
                                \o <<0, 1>>)]

\* Scan::projection: each index given is moved past _null and _ts, then 0, 1
\* and R::primary_key_index() are added as they are.
Scan_projection(scan, projection) ==
    [scan EXCEPT !.projection =
        ProjectionMask_roots([i \in 1..Len(projection) |-> projection[i] + 2]
                                \o <<0, 1, primary_key_index>>)]

Scan_limit(scan, limit) == [scan EXCEPT !.limit = limit]

\* Scan::take without the loop over the Immutable deque.
Scan_take_NoImmutables(scan, store) ==
    MergeStream_from_vec(
        scan.streams
            \o <<Mutable_scan(scan.schema.mutable, scan.lower, scan.upper, scan.ts)>>
            \o Version_streams(scan.version, store, scan.lower, scan.upper, scan.ts,
                               scan.limit))

\* Scan::take handing the Version's streams to the merge before those of the
\* in-memory tables.
Scan_take_VersionFirst(scan, store) ==
    MergeStream_from_vec(
        scan.streams
            \o Version_streams(scan.version, store, scan.lower, scan.upper, scan.ts,
                               scan.limit)
            \o <<Mutable_scan(scan.schema.mutable, scan.lower, scan.upper, scan.ts)>>
            \o [i \in 1..Len(scan.schema.immutables) |->
                    Immutable_scan(scan.schema.immutables[i].rows,
                                   scan.lower, scan.upper, scan.ts)])

\* Scan::take: the Mutable's stream, then the Immutables' front to back, then
\* the Version's, merged.
Scan_take(scan, store) ==
    LET s1 == scan.streams
                \o <<Mutable_scan(scan.schema.mutable, scan.lower, scan.upper, scan.ts)>>
        s2 == s1 \o [i \in 1..Len(scan.schema.immutables) |->
                        Immutable_scan(scan.schema.immutables[i].rows,
                                       scan.lower, scan.upper, scan.ts)]
        s3 == s2 \o Version_streams(scan.version, store, scan.lower, scan.upper,
                                    scan.ts, scan.limit)
    IN MergeStream_from_vec(s3)

\* Schema::write reporting overflow from the threshold on, not above it.
Schema_write_AtLeast(schema, log_ty, record, ts) ==
    LET m == Mutable_insert(schema.mutable, log_ty, record, ts)
    IN [schema |-> [schema EXCEPT !.mutable = m],
        is_excess |-> m.size >= max_mem_table_size]

\* Schema::remove inserting the record-less entry as a write of the origin of
\* time instead of ts.
Schema_remove_StaleTs(schema, log_ty, key, ts) ==
    LET m == Mutable_remove(schema.mutable, log_ty, key, 0)
    IN [schema |-> [schema EXCEPT !.mutable = m],
        is_excess |-> m.size > max_mem_table_size]

\* Schema::write / Schema::remove: the new Mutable and whether its size is
\* above max_mem_table_size.
Schema_write(schema, log_ty, record, ts) ==
    LET m == Mutable_insert(schema.mutable, log_ty, record, ts)
    IN [schema |-> [schema EXCEPT !.mutable = m],
        is_excess |-> m.size > max_mem_table_size]

Schema_remove(schema, log_ty, key, ts) ==
    LET m == Mutable_remove(schema.mutable, log_ty, key, ts)
    IN [schema |-> [schema EXCEPT !.mutable = m],
        is_excess |-> m.size > max_mem_table_size]

\* Schema::get: the first item of the scan of (Included(key), Unbounded) at
\* ts; <<>> is None, <<e>> is Some(e).
Schema_get(schema, version, store, key, ts) ==
    LET stream == Scan_take(Scan_new(schema, Included(key), Unbounded, ts, version, <<>>),
                            store)
    IN IF stream = <<>> THEN <<>> ELSE <<Head(stream)>>

\* Schema::check_conflict consulting the Immutable deque only.
Schema_check_conflict_ImmutablesOnly(schema, key, ts) ==
    \E i \in 1..Len(schema.immutables) :
        Immutable_check_conflict(schema.immutables[i].rows, key, ts)

Schema_check_conflict(schema, key, ts) ==
    \/ Mutable_check_conflict(schema.mutable, key, ts)
    \/ \E i \in 1..Len(schema.immutables) :
            Immutable_check_conflict(schema.immutables[i].rows, key, ts)

\* ------------------------------------------------------------ VersionSet, Cleaner
\* The ids of a set, ascending (the order in which they are sent to the Cleaner).
RECURSIVE IdSeq(_)
IdSeq(S) ==
    IF S = {} THEN <<>>
    ELSE LET m == CHOOSE x \in S : \A y \in S : x <= y IN <<m>> \o IdSeq(S \ {m})

\* A handle on `version` is taken: each of its files gains a reference.
Version_acquire(refs, version) ==
    [f \in FileIds |-> IF f \in VersionFiles(version) THEN refs[f] + 1 ELSE refs[f]]

\* A handle on `version` is dropped: each of its files loses a reference.
Version_drop(refs, version) ==
    [f \in FileIds |-> IF f \in VersionFiles(version) THEN refs[f] - 1 ELSE refs[f]]

\* The files of `version` that the drop leaves without a reference.
Unreferenced(refs, version) ==
    {f \in VersionFiles(version) : Version_drop(refs, version)[f] = 0}

\* VersionSet::apply: the edit produces a new Version, which replaces the
\* current one; the files that no reachable Version references any more are
\* forwarded to the Cleaner.
VersionSet_apply(vs, levels) ==
    LET new == [num |-> vs.current.num + 1, levels |-> levels]
        held == Version_acquire(vs.refs, new)
    IN [current |-> new,
        refs |-> Version_drop(held, vs.current),
        clean |-> IdSeq(Unreferenced(held, vs.current))]

\* ------------------------------------------------------------ Compactor
\* The key range (scope) of a segment.
MinKey(rows) == rows[1].k
MaxKey(rows) == rows[Len(rows)].k
Overlap(a, b) == a # <<>> /\ b # <<>> /\ MinKey(a) <= MaxKey(b) /\ MinKey(b) <= MaxKey(a)

RECURSIVE Pow(_, _)
Pow(b, e) == IF e = 0 THEN 1 ELSE b * Pow(b, e - 1)

\* The version-count threshold of a level for major compaction.
MajorThreshold(l) == major_threshold_with_sst_size * Pow(level_sst_magnification, l)

\* A horizon at the latest timestamp: only the versions written at it are
\* retained.
GcHorizon_Latest == MaxTs

\* The source registers no transaction snapshot with the VersionSet, so the
\* horizon the compactor obtains from it is the origin of time.
GcHorizon == 0

\* Retain the versions with ts >= horizon that no newer tombstone with
\* ts <= horizon shadows.
GcRetain(rows, horizon) ==
    LET keep(e) ==
            /\ e.ts >= horizon
            /\ ~\E i \in 1..Len(rows) :
                    /\ rows[i].k = e.k /\ rows[i].v = None
                    /\ rows[i].ts > e.ts /\ rows[i].ts <= horizon
    IN SelectSeq(rows, keep)

\* Merged rows cut into files of at most max_sst_file_size rows.
RECURSIVE SplitRows(_)
SplitRows(rows) ==
    IF rows = <<>> THEN <<>>
    ELSE IF Len(rows) <= max_sst_file_size THEN <<rows>>
    ELSE <<SubSeq(rows, 1, max_sst_file_size)>>
            \o SplitRows(SubSeq(rows, max_sst_file_size + 1, Len(rows)))

\* The first level whose segment count reached its threshold, or -1.
MajorLevel(version) ==
    LET due == {l \in Levels : l < MAX_LEVEL /\ Len(version.levels[l]) >= MajorThreshold(l)}
    IN IF due = {} THEN 0 - 1 ELSE CHOOSE l \in due : \A o \in due : l <= o

\* The oldest segment of a level (FileIds are handed out in time order).
OldestOf(ids) == CHOOSE f \in {ids[i] : i \in 1..Len(ids)} :
                    \A i \in 1..Len(ids) : f <= ids[i]

\* A level >= 1 is kept sorted by min key.
RECURSIVE SortByMinKey(_, _)
SortByMinKey(S, store) ==
    IF S = {} THEN <<>>
    ELSE LET f == CHOOSE c \in S : \A o \in S :
                    \/ MinKey(store[c]) < MinKey(store[o])
                    \/ (MinKey(store[c]) = MinKey(store[o]) /\ c <= o)
         IN <<f>> \o SortByMinKey(S \ {f}, store)

\* Major compaction of level l: the oldest segment of l and the segments of
\* l + 1 that overlap it are merged into new files `fresh` of level l + 1.
MajorInputs(version, store, l) ==
    LET picked == OldestOf(version.levels[l])
        next == version.levels[l + 1]
    IN <<picked>> \o SelectSeq(next, LAMBDA f : Overlap(store[f], store[picked]))

MajorOutputs(version, store, l) ==
    LET inputs == MajorInputs(version, store, l)
        merged == MergeStream_from_vec([i \in 1..Len(inputs) |-> store[inputs[i]]])
    IN SplitRows(GcRetain(merged, GcHorizon))

\* ------------------------------------------------------------ state
VARIABLES
    schema,        \* Schema: the Mutable and the deque of (FileId, Immutable)
    rwlock,        \* the RwLock around the Schema: readers, and the writer bit
    task_chan,     \* Freeze signals pending in the bounded(1) channel
    compactor,     \* the compactor task's position
    version_set,   \* VersionSet: the current Version, references per FileId
    store,         \* the content of each SST ever written
    disk,          \* the FileIds that exist on the file provider
    next_file,     \* FileId::new()
    clean_chan,    \* the unbounded channel to the Cleaner
    txn,           \* the transactions
    lock_map,      \* LockMap: the holder of each key's lock (0: nobody)
    clock,         \* the latest timestamp handed out
    nwrites,       \* the number of records written so far
    logical,       \* the logical map: what each written (key, ts) holds
    error_log,     \* the kinds of error the compactor task has logged
    call           \* a call of a function of the crate: arguments and results

vars == <<schema, rwlock, task_chan, compactor, version_set, store, disk, next_file,
          clean_chan, txn, lock_map, clock, nwrites, logical, error_log, call>>

\* bounded(1)
TaskChanCap == 1

NoWrite == "NoWrite"

IdleTxn ==
    [pc |-> "idle", version |-> EmptyVersion, snapshot_ts |-> 0,
     local |-> [k \in Keys |-> NoWrite], result |-> "None"]

\* No function of the crate is being called.
NoCall == [op |-> "none"]

\* The state DB::new leaves.
InitDB ==
    /\ schema = EmptySchema
    /\ rwlock = [readers |-> {}, writer |-> FALSE]
    /\ task_chan = 0
    /\ compactor = "recv"
    /\ version_set = [current |-> EmptyVersion, refs |-> [f \in FileIds |-> 0]]
    /\ store = [f \in FileIds |-> <<>>]
    /\ disk = {}
    /\ next_file = 1
    /\ clean_chan = <<>>
    /\ txn = [t \in Txns |-> IdleTxn]
    /\ lock_map = [k \in Keys |-> 0]
    /\ clock = 0
    /\ nwrites = 0
    /\ logical = {}
    /\ error_log = {}

Init == InitDB /\ call = NoCall

\* The logical map after (key, ts) -> value is written.
Written(map, k, ts, v) ==
    {e \in map : ~(e.k = k /\ e.ts = ts)} \cup {[k |-> k, ts |-> ts, v |-> v]}

\* Sender::try_send on the bounded channel: a full channel drops the signal.
try_send(chan) == IF chan < TaskChanCap THEN chan + 1 ELSE chan

\* RwLock::read succeeds while no writer holds or awaits the lock.
CanRead == ~rwlock.writer

\* ------------------------------------------------------------ DB::write
\* DB::write sending the Freeze only when its own insert is the one that
\* takes the Mutable over the threshold.
DB_write_FirstCrossing(sch, chan, record, ts) ==
    LET w == Schema_write(sch, "Full", record, ts)
    IN [schema |-> w.schema,
        task_chan |-> IF w.is_excess /\ sch.mutable.size <= max_mem_table_size
                      THEN try_send(chan) ELSE chan]

\* The Schema and the channel after DB::write(record, ts).
DB_write(sch, chan, record, ts) ==
    LET w == Schema_write(sch, "Full", record, ts)
    IN [schema |-> w.schema,
        task_chan |-> IF w.is_excess THEN try_send(chan) ELSE chan]

DBWrite(k, ts) ==
    /\ CanRead
    /\ nwrites < MaxWrites
    /\ ts <= MaxTs
    /\ LET w == DB_write(schema, task_chan, [k |-> k, v |-> nwrites + 1], ts)
       IN /\ schema' = w.schema
          /\ task_chan' = w.task_chan
    /\ logical' = Written(logical, k, ts, nwrites + 1)
    /\ nwrites' = nwrites + 1
    /\ clock' = ts
    /\ UNCHANGED <<rwlock, compactor, version_set, store, disk, next_file, clean_chan,
                   txn, lock_map,
                   error_log, call>>

\* ------------------------------------------------------------ DB::write_batch
\* The greatest number of records in a batch.
MaxBatch == 3

\* The Schema after records 2..i of the batch are written with LogType::Middle
\* (each turn of the while loop writes the record it takes out of last_buf).
RECURSIVE WriteMiddle(_, _, _, _)
WriteMiddle(sch, records, i, ts) ==
    IF i < 2 THEN sch
    ELSE Schema_write(WriteMiddle(sch, records, i - 1, ts), "Middle", records[i], ts).schema

\* write_batch whose loop writes the record it has just read and leaves
\* last_buf as it was.
DB_write_batch_NoReplace(sch, chan, records, ts) ==
    IF records = <<>> THEN [schema |-> sch, task_chan |-> chan]
    ELSE LET n == Len(records)
             w == IF n >= 2
                  THEN LET first == Schema_write(sch, "First", records[1], ts).schema
                           middle == WriteMiddle(first, Tail(records), n - 1, ts)
                       IN Schema_write(middle, "Last", records[2], ts)
                  ELSE Schema_write(sch, "Full", records[1], ts)
         IN [schema |-> w.schema,
             task_chan |-> IF w.is_excess THEN try_send(chan) ELSE chan]

\* The Schema and the channel after DB::write_batch(records, ts).
DB_write_batch(sch, chan, records, ts) ==
    IF records = <<>> THEN [schema |-> sch, task_chan |-> chan]
    ELSE LET n == Len(records)
             w == IF n >= 2
                  THEN LET first == Schema_write(sch, "First", records[1], ts).schema
                           middle == WriteMiddle(first, records, n - 1, ts)
                       IN Schema_write(middle, "Last", records[n], ts)
                  ELSE Schema_write(sch, "Full", records[1], ts)
         IN [schema |-> w.schema,
             task_chan |-> IF w.is_excess THEN try_send(chan) ELSE chan]

\* The batches a caller writes: up to MaxBatch keys in any order.
BatchInputs == UNION {[1..n -> Keys] : n \in 0..MaxBatch}

\* The records of a batch: record i carries write number nwrites + i.
BatchRecords(keys) == [i \in 1..Len(keys) |-> [k |-> keys[i], v |-> nwrites + i]]

RECURSIVE WrittenRecords(_, _, _, _)
WrittenRecords(map, records, i, ts) ==
    IF i = 0 THEN map
    ELSE Written(WrittenRecords(map, records, i - 1, ts), records[i].k, ts, records[i].v)

DBWriteBatch(keys, ts) ==
    /\ CanRead
    /\ nwrites + Len(keys) <= MaxWrites
    /\ ts <= MaxTs
    /\ LET w == DB_write_batch(schema, task_chan, BatchRecords(keys), ts)
       IN /\ schema' = w.schema
          /\ task_chan' = w.task_chan
    /\ logical' = WrittenRecords(logical, BatchRecords(keys), Len(keys), ts)
    /\ nwrites' = nwrites + Len(keys)
    /\ clock' = ts
    /\ UNCHANGED <<rwlock, compactor, version_set, store, disk, next_file, clean_chan,
                   txn, lock_map, error_log, call>>

\* write_batch step by step, as the task that runs it is scheduled: the guard,
\* one schema.write per step, then the Freeze and the return.  `call` holds
\* the records, the number of them written so far and the last is_excess.
Writer == 0

\* The log type of record i of a batch of n.
BatchLogType(i, n) ==
    IF n = 1 THEN "Full" ELSE IF i = 1 THEN "First" ELSE IF i = n THEN "Last" ELSE "Middle"

\* write_batch inserting without a guard on the Schema.
WriteBatchRead_NoGuard(keys, ts) ==
    /\ call = NoCall
    /\ CanRead
    /\ nwrites + Len(keys) <= MaxWrites
    /\ ts <= MaxTs
    /\ call' = [op |-> "write_batch", pc |-> "writing", records |-> BatchRecords(keys),
                ts |-> ts, i |-> 0, is_excess |-> FALSE]
    /\ nwrites' = nwrites + Len(keys)
    /\ clock' = ts
    /\ UNCHANGED <<schema, rwlock, task_chan, compactor, version_set, store, disk, next_file,
                   clean_chan, txn, lock_map, logical, error_log>>

\* let schema = self.schema.read().await
WriteBatchRead(keys, ts) ==
    /\ call = NoCall
    /\ CanRead
    /\ nwrites + Len(keys) <= MaxWrites
    /\ ts <= MaxTs
    /\ rwlock' = [rwlock EXCEPT !.readers = @ \cup {Writer}]
    /\ call' = [op |-> "write_batch", pc |-> "writing", records |-> BatchRecords(keys),
                ts |-> ts, i |-> 0, is_excess |-> FALSE]
    /\ nwrites' = nwrites + Len(keys)
    /\ clock' = ts
    /\ UNCHANGED <<schema, task_chan, compactor, version_set, store, disk, next_file,
                   clean_chan, txn, lock_map, logical, error_log>>

\* schema.write(log_ty, record, ts).await returning Ok
WriteBatchWrite ==
    /\ call.op = "write_batch" /\ call.pc = "writing"
    /\ call.i < Len(call.records)
    /\ LET i == call.i + 1
           w == Schema_write(schema, BatchLogType(i, Len(call.records)),
                             call.records[i], call.ts)
       IN /\ schema' = w.schema
          /\ logical' = Written(logical, call.records[i].k, call.ts, call.records[i].v)
          /\ call' = [call EXCEPT !.i = i, !.is_excess = w.is_excess]
    /\ UNCHANGED <<rwlock, task_chan, compactor, version_set, store, disk, next_file,
                   clean_chan, txn, lock_map, clock, nwrites, error_log>>

\* if is_excess { try_send(Freeze) }; Ok(()): the guard is dropped.
WriteBatchReturn ==
    /\ call.op = "write_batch" /\ call.pc = "writing"
    /\ call.i = Len(call.records)
    /\ task_chan' = IF call.is_excess THEN try_send(task_chan) ELSE task_chan
    /\ rwlock' = [rwlock EXCEPT !.readers = @ \ {Writer}]
    /\ call' = NoCall
    /\ UNCHANGED <<schema, compactor, version_set, store, disk, next_file, clean_chan, txn,
                   lock_map, clock, nwrites, logical, error_log>>

\* schema.write(..).await? returning Err: write_batch returns the error at
\* once; the guard is dropped, no Freeze is sent.
WriteBatchErr ==
    /\ call.op = "write_batch" /\ call.pc = "writing"
    /\ call.i < Len(call.records)
    /\ rwlock' = [rwlock EXCEPT !.readers = @ \ {Writer}]
    /\ call' = [call EXCEPT !.pc = "failed"]
    /\ UNCHANGED <<schema, task_chan, compactor, version_set, store, disk, next_file,
                   clean_chan, txn, lock_map, clock, nwrites, logical, error_log>>

\* ------------------------------------------------------------ DB::transaction
\* version_set.current() copying the Version without taking a handle on it.
TxCurrent_NoHandle(t) ==
    /\ txn[t].pc = "idle"
    /\ txn' = [txn EXCEPT ![t].pc = "current", ![t].version = version_set.current]
    /\ UNCHANGED <<schema, rwlock, task_chan, compactor, version_set, store, disk,
                   next_file, clean_chan, lock_map, clock, nwrites, logical,
                   error_log, call>>

\* The first argument of Transaction::new: version_set.current().await
TxCurrent(t) ==
    /\ txn[t].pc = "idle"
    /\ txn' = [txn EXCEPT ![t].pc = "current", ![t].version = version_set.current]
    /\ version_set' = [version_set EXCEPT
                            !.refs = Version_acquire(version_set.refs, version_set.current)]
    /\ UNCHANGED <<schema, rwlock, task_chan, compactor, store, disk, next_file,
                   clean_chan, lock_map, clock, nwrites, logical,
                   error_log, call>>

\* DB::transaction reading version_set.current() a second time once the
\* guard is granted, in place of the handle it already holds.
TxRead_Recapture(t) ==
    /\ txn[t].pc = "current"
    /\ CanRead
    /\ rwlock' = [rwlock EXCEPT !.readers = @ \cup {t}]
    /\ txn' = [txn EXCEPT ![t].pc = "open", ![t].snapshot_ts = clock,
                          ![t].version = version_set.current]
    /\ UNCHANGED <<schema, task_chan, compactor, version_set, store, disk, next_file,
                   clean_chan, lock_map, clock, nwrites, logical,
                   error_log, call>>

\* DB::transaction handing Transaction::new no guard on the Schema.
TxRead_NoGuard(t) ==
    /\ txn[t].pc = "current"
    /\ CanRead
    /\ txn' = [txn EXCEPT ![t].pc = "open", ![t].snapshot_ts = clock]
    /\ UNCHANGED <<schema, rwlock, task_chan, compactor, version_set, store, disk,
                   next_file, clean_chan, lock_map, clock, nwrites, logical,
                   error_log, call>>

\* The second argument, schema.read().await, and Transaction::new, which
\* records the snapshot timestamp.
TxRead(t) ==
    /\ txn[t].pc = "current"
    /\ CanRead
    /\ rwlock' = [rwlock EXCEPT !.readers = @ \cup {t}]
    /\ txn' = [txn EXCEPT ![t].pc = "open", ![t].snapshot_ts = clock]
    /\ UNCHANGED <<schema, task_chan, compactor, version_set, store, disk, next_file,
                   clean_chan, lock_map, clock, nwrites, logical,
                   error_log, call>>

\* ------------------------------------------------------------ Transaction
\* get: the local buffer first, else the top entry of a scan at snapshot_ts
\* through the captured Version and Schema guard; a tombstone is None.
Transaction_get(t, key) ==
    IF txn[t].local[key] # NoWrite
    THEN (IF txn[t].local[key] = "Remove" THEN <<>>
          ELSE <<[k |-> key, ts |-> txn[t].snapshot_ts, v |-> "local"]>>)
    ELSE LET got == Schema_get(schema, txn[t].version, store, key, txn[t].snapshot_ts)
         IN IF got # <<>> /\ got[1].v = None THEN <<>> ELSE got

\* set(record) / remove(key): into the local buffer, no lock taken.
TxSet(t, k) ==
    /\ txn[t].pc = "open"
    /\ txn[t].local[k] = NoWrite
    /\ txn' = [txn EXCEPT ![t].local[k] = "Set"]
    /\ UNCHANGED <<schema, rwlock, task_chan, compactor, version_set, store, disk,
                   next_file, clean_chan, lock_map, clock, nwrites, logical,
                   error_log, call>>

TxRemove(t, k) ==
    /\ txn[t].pc = "open"
    /\ txn[t].local[k] = NoWrite
    /\ txn' = [txn EXCEPT ![t].local[k] = "Remove"]
    /\ UNCHANGED <<schema, rwlock, task_chan, compactor, version_set, store, disk,
                   next_file, clean_chan, lock_map, clock, nwrites, logical,
                   error_log, call>>

Buffered(t) == {k \in Keys : txn[t].local[k] # NoWrite}
Locked(t) == {k \in Keys : lock_map[k] = t}

\* commit taking the per-key locks in whatever order the buffer yields them.
TxLock_AnyOrder(t) ==
    /\ txn[t].pc \in {"open", "locking"}
    /\ \E k \in Buffered(t) \ Locked(t) :
          /\ lock_map[k] = 0
          /\ lock_map' = [lock_map EXCEPT ![k] = t]
    /\ txn' = [txn EXCEPT ![t].pc = "locking"]
    /\ UNCHANGED <<schema, rwlock, task_chan, compactor, version_set, store, disk,
                   next_file, clean_chan, clock, nwrites, logical,
                   error_log, call>>

\* commit, first part: the per-key locks, one at a time in ascending key order.
TxLock(t) ==
    /\ txn[t].pc \in {"open", "locking"}
    /\ Buffered(t) \ Locked(t) # {}
    /\ LET k == CHOOSE c \in Buffered(t) \ Locked(t) :
                    \A o \in Buffered(t) \ Locked(t) : c <= o
       IN /\ lock_map[k] = 0
          /\ lock_map' = [lock_map EXCEPT ![k] = t]
    /\ txn' = [txn EXCEPT ![t].pc = "locking"]
    /\ UNCHANGED <<schema, rwlock, task_chan, compactor, version_set, store, disk,
                   next_file, clean_chan, clock, nwrites, logical,
                   error_log, call>>

\* The batch of a transaction: its buffered keys in ascending order.
Batch(t) == IdSeq(Buffered(t))

\* The Schema after records 1..i of the batch are written at ts, the value of
\* record j being write number base + j.
RECURSIVE ApplyBatch(_, _, _, _, _, _)
ApplyBatch(sch, local, keys, i, ts, base) ==
    IF i = 0 THEN [schema |-> sch, is_excess |-> FALSE]
    ELSE LET before == ApplyBatch(sch, local, keys, i - 1, ts, base).schema
             ty == BatchLogType(i, Len(keys))
         IN IF local[keys[i]] = "Remove"
            THEN Schema_remove(before, ty, keys[i], ts)
            ELSE Schema_write(before, ty, [k |-> keys[i], v |-> base + i], ts)

RECURSIVE WrittenBatch(_, _, _, _, _, _)
WrittenBatch(map, local, keys, i, ts, base) ==
    IF i = 0 THEN map
    ELSE Written(WrittenBatch(map, local, keys, i - 1, ts, base), keys[i], ts,
                 IF local[keys[i]] = "Remove" THEN None ELSE base + i)

\* The transaction ends: its locks, its Schema guard and its Version handle
\* are released.
TxRelease(t) ==
    /\ lock_map' = [k \in Keys |-> IF lock_map[k] = t THEN 0 ELSE lock_map[k]]
    /\ rwlock' = [rwlock EXCEPT !.readers = @ \ {t}]
    /\ version_set' = [version_set EXCEPT
                            !.refs = Version_drop(version_set.refs, txn[t].version)]
    /\ clean_chan' = clean_chan \o IdSeq(Unreferenced(version_set.refs, txn[t].version))

\* commit, second part: with every lock held, each key is validated against
\* the snapshot; a conflict fails the commit, else the batch is written at
\* the commit timestamp.
TxCommit(t) ==
    /\ txn[t].pc \in {"open", "locking"}
    /\ Buffered(t) \subseteq Locked(t)
    /\ IF \E k \in Buffered(t) : Schema_check_conflict(schema, k, txn[t].snapshot_ts)
       THEN /\ txn' = [txn EXCEPT ![t].pc = "done", ![t].result = "WriteConflict"]
            /\ UNCHANGED <<schema, task_chan, clock, nwrites, logical>>
       ELSE LET keys == Batch(t)
                n == Len(keys)
                ts == IF n = 0 THEN clock ELSE clock + 1
                w == ApplyBatch(schema, txn[t].local, keys, n, ts, nwrites)
            IN /\ ts <= MaxTs
               /\ nwrites + n <= MaxWrites
               /\ schema' = w.schema
               /\ task_chan' = IF w.is_excess THEN try_send(task_chan) ELSE task_chan
               /\ logical' = WrittenBatch(logical, txn[t].local, keys, n, ts, nwrites)
               /\ nwrites' = nwrites + n
               /\ clock' = ts
               /\ txn' = [txn EXCEPT ![t].pc = "done", ![t].result = "Ok"]
    /\ TxRelease(t)
    /\ UNCHANGED <<compactor, store, disk, next_file,
                   error_log, call>>

\* The transaction is dropped without commit.
TxDrop(t) ==
    /\ txn[t].pc \in {"open", "locking"}
    /\ txn' = [txn EXCEPT ![t].pc = "done", ![t].result = "Dropped"]
    /\ TxRelease(t)
    /\ UNCHANGED <<schema, task_chan, compactor, store, disk, next_file, clock, nwrites,
                   logical,
                   error_log, call>>

\* ------------------------------------------------------------ compactor task
\* A task that takes the next Freeze while check_then_compaction is still
\* running, and starts over.
CompactorRecv_Overlapping ==
    /\ task_chan > 0
    /\ task_chan' = task_chan - 1
    /\ compactor' = "freeze"
    /\ UNCHANGED <<schema, rwlock, version_set, store, disk, next_file, clean_chan, txn,
                   lock_map, clock, nwrites, logical, error_log, call>>

\* while let Ok(task) = task_rx.recv_async().await
CompactorRecv ==
    /\ compactor = "recv"
    /\ task_chan > 0
    /\ task_chan' = task_chan - 1
    /\ compactor' = "freeze"
    /\ UNCHANGED <<schema, rwlock, version_set, store, disk, next_file, clean_chan, txn,
                   lock_map, clock, nwrites, logical,
                   error_log, call>>

\* schema.write(): the writer bit is set, which holds new readers back; the
\* guard is granted once the readers have left.
CompactorWrite ==
    /\ compactor \in {"freeze", "drain"}
    /\ ~rwlock.writer
    /\ rwlock' = [rwlock EXCEPT !.writer = TRUE]
    /\ UNCHANGED <<schema, task_chan, compactor, version_set, store, disk, next_file,
                   clean_chan, txn, lock_map, clock, nwrites, logical,
                   error_log, call>>

\* A freeze that builds the Immutable from the Mutable it installs, not from
\* the one it takes out.
Freeze_FromInstalled(sch, id) ==
    [mutable |-> EmptyMutable,
     immutables |-> <<[id |-> id, rows |-> Immutable_from(EmptyMutable.data)]>>
                        \o sch.immutables]

\* Freezing, under the write guard: a Mutable above the threshold moves to the
\* front of the deque with a new FileId and a new empty Mutable is installed.
Freeze(sch, id) ==
    [mutable |-> EmptyMutable,
     immutables |-> <<[id |-> id, rows |-> Immutable_from(sch.mutable.data)]>>
                        \o sch.immutables]

CompactorFreeze ==
    /\ compactor = "freeze"
    /\ rwlock.writer /\ rwlock.readers = {}
    /\ IF schema.mutable.size > max_mem_table_size /\ next_file <= MaxFiles
       THEN /\ schema' = Freeze(schema, next_file)
            /\ next_file' = next_file + 1
       ELSE UNCHANGED <<schema, next_file>>
    /\ rwlock' = [rwlock EXCEPT !.writer = FALSE]
    /\ compactor' = "flush"
    /\ UNCHANGED <<task_chan, version_set, store, disk, clean_chan, txn, lock_map, clock,
                   nwrites, logical,
                   error_log, call>>

\* Minor compaction, under the read guard: once immutable_chunk_num Immutables
\* are pending each is written to an SST and one edit adds them to level 0.
FlushedIds(sch) == [i \in 1..Len(sch.immutables) |-> sch.immutables[i].id]

MinorLevels(version, sch) ==
    [version.levels EXCEPT ![0] = FlushedIds(sch) \o @]

CompactorFlush ==
    /\ compactor = "flush"
    /\ IF Len(schema.immutables) >= immutable_chunk_num
       THEN LET ids == {schema.immutables[i].id : i \in 1..Len(schema.immutables)}
                applied == VersionSet_apply(version_set,
                                            MinorLevels(version_set.current, schema))
            IN /\ store' = [f \in FileIds |->
                                IF f \in ids
                                THEN (CHOOSE m \in {schema.immutables[i] :
                                                      i \in 1..Len(schema.immutables)} :
                                            m.id = f).rows
                                ELSE store[f]]
               /\ disk' = disk \cup ids
               /\ version_set' = [current |-> applied.current, refs |-> applied.refs]
               /\ clean_chan' = clean_chan \o applied.clean
               /\ compactor' = "drain"
       ELSE /\ compactor' = "major"
            /\ UNCHANGED <<store, disk, version_set, clean_chan>>
    /\ UNCHANGED <<schema, rwlock, task_chan, next_file, txn, lock_map, clock, nwrites,
                   logical,
                   error_log, call>>

\* Under the write guard the flushed Immutables are drained from the deque.
CompactorDrain ==
    /\ compactor = "drain"
    /\ rwlock.writer /\ rwlock.readers = {}
    /\ schema' = [schema EXCEPT !.immutables = <<>>]
    /\ rwlock' = [rwlock EXCEPT !.writer = FALSE]
    /\ compactor' = "major"
    /\ UNCHANGED <<task_chan, version_set, store, disk, next_file, clean_chan, txn,
                   lock_map, clock, nwrites, logical,
                   error_log, call>>

\* Major compaction: while a level is at its threshold, its oldest segment is
\* merged into the next level and one edit removes the inputs and adds the
\* outputs.
MajorLevels(version, store2, l, inputs, fresh) ==
    LET gone == {inputs[i] : i \in 1..Len(inputs)}
        kept == {version.levels[l + 1][i] : i \in 1..Len(version.levels[l + 1])} \ gone
    IN [version.levels EXCEPT
            ![l] = SelectSeq(@, LAMBDA f : f # inputs[1]),
            ![l + 1] = SortByMinKey(kept \cup fresh, store2)]

CompactorMajor ==
    /\ compactor = "major"
    /\ LET l == MajorLevel(version_set.current)
       IN IF l >= 0
          THEN \E inputs \in {MajorInputs(version_set.current, store, l)},
                  outputs \in {MajorOutputs(version_set.current, store, l)} :
               LET fresh == {next_file + i - 1 : i \in 1..Len(outputs)}
               IN \E store2 \in {[f \in FileIds |->
                                IF f \in fresh THEN outputs[f - next_file + 1] ELSE store[f]]} :
                  \E applied \in {VersionSet_apply(version_set,
                                MajorLevels(version_set.current, store2, l, inputs, fresh))} :
                  IF next_file + Len(outputs) - 1 <= MaxFiles
                  THEN /\ store' = store2
                       /\ disk' = disk \cup fresh
                       /\ next_file' = next_file + Len(outputs)
                       /\ version_set' = [current |-> applied.current,
                                          refs |-> applied.refs]
                       /\ clean_chan' = clean_chan \o applied.clean
                       /\ compactor' = "major"
                  ELSE /\ compactor' = "recv"
                       /\ UNCHANGED <<store, disk, next_file, version_set, clean_chan>>
          ELSE /\ compactor' = "recv"
               /\ UNCHANGED <<store, disk, next_file, version_set, clean_chan>>
    /\ UNCHANGED <<schema, rwlock, task_chan, txn, lock_map, clock, nwrites, logical,
                   error_log, call>>

\* check_then_compaction returns Err while it writes segments or applies an
\* edit: the task logs the error and its loop goes on to the next recv.
ErrorKinds == {"Io", "Version"}

CompactorFail(kind) ==
    /\ compactor \in {"flush", "major"}
    /\ error_log' = error_log \cup {kind}
    /\ compactor' = "recv"
    /\ UNCHANGED <<schema, rwlock, task_chan, version_set, store, disk, next_file,
                   clean_chan, txn, lock_map, clock, nwrites, logical, call>>

\* ------------------------------------------------------------ cleaner task
\* Cleaner::listen: each FileId received is removed from the file provider.
CleanerListen ==
    /\ clean_chan # <<>>
    /\ disk' = disk \ {Head(clean_chan)}
    /\ clean_chan' = Tail(clean_chan)
    /\ UNCHANGED <<schema, rwlock, task_chan, compactor, version_set, store, next_file,
                   txn, lock_map, clock, nwrites, logical,
                   error_log, call>>

\* A cleaner task that was never spawned.
CleanerTask_NotSpawned == FALSE /\ UNCHANGED vars

\* executor.spawn(cleaner.listen()): the cleaner task runs Cleaner::listen.
CleanerTask == CleanerListen

\* ------------------------------------------------------------ specification
Compactor ==
    \/ CompactorRecv
    \/ CompactorWrite
    \/ CompactorFreeze
    \/ CompactorFlush
    \/ CompactorDrain
    \/ CompactorMajor

\* The pipeline: writers calling DB::write, one transaction, the compactor and
\* the cleaner.
Next ==
    \/ \E k \in Keys, ts \in {clock, clock + 1} : DBWrite(k, ts)
    \/ TxCurrent(1)
    \/ TxRead(1)
    \/ \E k \in Keys : TxSet(1, k)
    \/ \E k \in Keys : TxRemove(1, k)
    \/ TxLock(1)
    \/ TxCommit(1)
    \/ TxDrop(1)
    \/ CompactorRecv
    \/ CompactorWrite
    \/ CompactorFreeze
    \/ CompactorFlush
    \/ CompactorDrain
    \/ CompactorMajor
    \/ CleanerTask

Spec == Init /\ [][Next]_vars

\* The cleaner task is scheduled as long as it has a FileId to receive.
FairSpec == Spec /\ WF_vars(CleanerTask)

\* Concurrent transactions: every transaction, the compactor and the cleaner.
NextTxn ==
    \/ \E t \in Txns : TxCurrent(t)
    \/ \E t \in Txns : TxRead(t)
    \/ \E t \in Txns, k \in Keys : TxSet(t, k)
    \/ \E t \in Txns, k \in Keys : TxRemove(t, k)
    \/ \E t \in Txns : TxLock(t)
    \/ \E t \in Txns : TxCommit(t)
    \/ \E t \in Txns : TxDrop(t)
    \/ CompactorRecv
    \/ CompactorWrite
    \/ CompactorFreeze
    \/ CompactorFlush
    \/ CompactorDrain
    \/ CompactorMajor
    \/ CleanerTask

SpecTxn == Init /\ [][NextTxn]_vars

\* The pipeline with compactions that fail: writers, the compactor, whose
\* check_then_compaction may return Err, and the cleaner.
NextErr ==
    \/ \E k \in Keys, ts \in {clock, clock + 1} : DBWrite(k, ts)
    \/ Compactor
    \/ \E kind \in ErrorKinds : CompactorFail(kind)
    \/ CleanerTask

SpecErr == Init /\ [][NextErr]_vars

\* The pipeline with batches: writers calling DB::write_batch, the compactor
\* and the cleaner.
NextBatch ==
    \/ \E keys \in BatchInputs, ts \in {clock, clock + 1} : DBWriteBatch(keys, ts)
    \/ Compactor
    \/ CleanerTask

SpecBatch == Init /\ [][NextBatch]_vars

\* Concurrent writers: a write_batch that runs step by step, writers calling
\* DB::write between its steps, the compactor and the cleaner.
NextSwap ==
    \/ \E keys \in BatchInputs, ts \in {clock, clock + 1} : WriteBatchRead(keys, ts)
    \/ WriteBatchWrite
    \/ WriteBatchReturn
    \/ \E k \in Keys, ts \in {clock, clock + 1} : DBWrite(k, ts)
    \/ Compactor
    \/ CleanerTask

SpecSwap == Init /\ [][NextSwap]_vars

\* The same with inserts that fail.
NextBatchErr ==
    \/ \E keys \in BatchInputs, ts \in {clock, clock + 1} : WriteBatchRead(keys, ts)
    \/ WriteBatchWrite
    \/ WriteBatchReturn
    \/ WriteBatchErr
    \/ \E k \in Keys, ts \in {clock, clock + 1} : DBWrite(k, ts)
    \/ Compactor
    \/ CleanerTask

SpecBatchErr == Init /\ [][NextBatchErr]_vars

\* ------------------------------------------------------------ wal::record_entry
\* The longest string a key or a record holds.
MaxStr == 2

\* The variables of the database, which a call of a function leaves alone.
dbvars == <<schema, rwlock, task_chan, compactor, version_set, store, disk, next_file,
            clean_chan, txn, lock_map, clock, nwrites, logical, error_log>>

\* Bytes, and the strings over a two-letter alphabet.
Letters == {97, 98}
Strings == UNION {[1..n -> Letters] : n \in 0..MaxStr}

\* Timestamp is a u32; the timestamps encoded lie on both sides of each byte
\* boundary, up to the greatest integer the model's arithmetic holds.
MaxInt == 2147483647
WalTimestamps == {0, 1, 255, 256, 65535, 65536, 16777215, 16777216, MaxInt}

\* Reading from a byte stream: the first n bytes and what follows them; a
\* stream that ends early yields what it has.
Take(bytes, n) == SubSeq(bytes, 1, IF n <= Len(bytes) THEN n ELSE Len(bytes))
Drop(bytes, n) == SubSeq(bytes, (IF n <= Len(bytes) THEN n ELSE Len(bytes)) + 1, Len(bytes))

\* u32: four bytes, little endian.
u32_encode(n) ==
    <<n % 256, (n \div 256) % 256, (n \div 65536) % 256, (n \div 16777216) % 256>>

\* A value above MaxInt is read as -1.
u32_decode(bytes) ==
    LET b == Take(bytes, 4) \o <<0, 0, 0, 0>>
    IN [value |-> IF b[4] >= 128 THEN 0 - 1
                  ELSE b[1] + 256 * b[2] + 65536 * b[3] + 16777216 * b[4],
        rest |-> Drop(bytes, 4)]

\* String: the length, then the bytes.
String_encode(str) == <<Len(str)>> \o str

String_decode(bytes) ==
    LET n == IF bytes = <<>> THEN 0 ELSE Head(bytes)
    IN [value |-> Take(Drop(bytes, 1), n), rest |-> Drop(Drop(bytes, 1), n)]

\* Timestamped<K>: the key, then the timestamp.
Timestamped_encode(key) == String_encode(key.value) \o u32_encode(key.ts)

Timestamped_decode(bytes) ==
    LET k == String_decode(bytes)
        t == u32_decode(k.rest)
    IN [value |-> [value |-> k.value, ts |-> t.value], rest |-> t.rest]

\* Option<R>: a tag byte, 0 for None, 1 for Some followed by the record.
Option_encode(record) ==
    IF record = <<>> THEN <<0>> ELSE <<1>> \o String_encode(record[1])

Option_decode(bytes) ==
    IF bytes = <<>> \/ Head(bytes) = 0
    THEN [value |-> <<>>, rest |-> Drop(bytes, 1)]
    ELSE LET r == String_decode(Drop(bytes, 1))
         IN [value |-> <<r.value>>, rest |-> r.rest]

\* RecordEntry::encode: key.encode(writer), then recode_ref.encode(writer).
RecordEntry_encode(entry) ==
    Timestamped_encode(entry.key) \o Option_encode(entry.record)

\* RecordEntry::decode reading the record before the key.
RecordEntry_decode_RecordFirst(bytes) ==
    LET record == Option_decode(bytes)
        key == Timestamped_decode(record.rest)
    IN [key |-> key.value, record |-> record.value]

\* RecordEntry::decode: Timestamped::<Key>::decode(reader), then
\* Option::<Re>::decode(reader).
RecordEntry_decode(bytes) ==
    LET key == Timestamped_decode(bytes)
        record == Option_decode(key.rest)
    IN [key |-> key.value, record |-> record.value]

\* The entries a caller encodes: RecordEntry::Encode((key, record)).
RecordEntries ==
    {[key |-> [value |-> k, ts |-> t], record |-> r] :
        k \in Strings, t \in WalTimestamps, r \in {<<>>} \cup {<<str>> : str \in Strings}}

\* tests::encode_and_decode: an entry is encoded into a buffer, the cursor is
\* set back to 0 and an entry is decoded from the buffer.
InitWal ==
    /\ InitDB
    /\ call \in {[op |-> "record_entry", pc |-> "new", entry |-> e, bytes |-> <<>>,
                  decoded |-> e] : e \in RecordEntries}

RecordEntryEncode ==
    /\ call.op = "record_entry" /\ call.pc = "new"
    /\ call' = [call EXCEPT !.pc = "encoded", !.bytes = RecordEntry_encode(call.entry)]
    /\ UNCHANGED dbvars

RecordEntryDecode ==
    /\ call.op = "record_entry" /\ call.pc = "encoded"
    /\ call' = [call EXCEPT !.pc = "decoded", !.decoded = RecordEntry_decode(call.bytes)]
    /\ UNCHANGED dbvars

NextWal == RecordEntryEncode \/ RecordEntryDecode

SpecWal == InitWal /\ [][NextWal]_vars

\* ------------------------------------------------------------ record_entry, failures
\* Result::unwrap: the value of Ok; Err panics, which aborts the task.
unwrap(result) == IF result = "Ok" THEN "Ok" ELSE "panic"

\* The result of the n-th encode into a writer whose fail-th write fails
\* (0: none fails).
Writer_result(fail, n) == IF fail = n THEN "Err" ELSE "Ok"

\* How RecordEntry::encode ends: "Ok", "Err" (returned to the caller) or
\* "panic".  Each inner result is unwrapped; any variant but Encode reaches
\* unreachable!().
RecordEntry_encode_outcome(variant, fail) ==
    IF variant = "Encode"
    THEN IF unwrap(Writer_result(fail, 1)) = "panic" THEN "panic"
         ELSE IF unwrap(Writer_result(fail, 2)) = "panic" THEN "panic"
         ELSE "Ok"
    ELSE "panic"

\* The inner decoders return Err when the reader ends before the value does.
String_result(bytes) ==
    IF bytes # <<>> /\ Len(bytes) >= 1 + Head(bytes) THEN "Ok" ELSE "Err"

Timestamped_result(bytes) ==
    IF String_result(bytes) = "Ok" /\ Len(String_decode(bytes).rest) >= 4
    THEN "Ok" ELSE "Err"

Option_result(bytes) ==
    IF bytes # <<>> /\ (Head(bytes) = 0 \/ String_result(Drop(bytes, 1)) = "Ok")
    THEN "Ok" ELSE "Err"

\* How RecordEntry::decode ends: each inner result is unwrapped.
RecordEntry_decode_outcome(bytes) ==
    IF unwrap(Timestamped_result(bytes)) = "panic" THEN "panic"
    ELSE IF unwrap(Option_result(Timestamped_decode(bytes).rest)) = "panic" THEN "panic"
    ELSE "Ok"

\* The bytes a reader holds: the encoding of an entry, whole or cut short.
Readable ==
    {Take(RecordEntry_encode(e), n) :
        e \in {x \in RecordEntries : x.key.ts <= 1}, n \in 0..(2 * MaxStr + 7)}

\* A call of encode on a value of either variant with a writer that may fail,
\* or of decode on the bytes of a reader.
InitWalErr ==
    /\ InitDB
    /\ call \in {[op |-> "encode", pc |-> "new", variant |-> v, fail |-> f,
                  bytes |-> <<>>, outcome |-> "none"] :
                    v \in {"Encode", "Decode"}, f \in 0..2}
                \cup {[op |-> "decode", pc |-> "new", variant |-> "Decode", fail |-> 0,
                       bytes |-> b, outcome |-> "none"] : b \in Readable}

RecordEntryEncodeCall ==
    /\ call.op = "encode" /\ call.pc = "new"
    /\ call' = [call EXCEPT !.pc = "done",
                            !.outcome = RecordEntry_encode_outcome(call.variant, call.fail)]
    /\ UNCHANGED dbvars

RecordEntryDecodeCall ==
    /\ call.op = "decode" /\ call.pc = "new"
    /\ call' = [call EXCEPT !.pc = "done",
                            !.outcome = RecordEntry_decode_outcome(call.bytes)]
    /\ UNCHANGED dbvars

NextWalErr == RecordEntryEncodeCall \/ RecordEntryDecodeCall

SpecWalErr == InitWalErr /\ [][NextWalErr]_vars

\* ------------------------------------------------------------ Scan::projection
\* The longest list of user column indices a caller gives.
MaxProjection == 4

ProjectionInputs == UNION {[1..n -> UserColumns] : n \in 0..MaxProjection}

\* A scan is built and given a projection (Schema::get with
\* Projection::Parts(mask)).
InitProjection ==
    /\ InitDB
    /\ call \in {[op |-> "projection", pc |-> "new", projection |-> p, mask |-> {}] :
                    p \in ProjectionInputs}

ScanProjection ==
    /\ call.op = "projection" /\ call.pc = "new"
    /\ call' = [call EXCEPT
                    !.pc = "done",
                    !.mask = Scan_projection(
                                Scan_new(schema, Unbounded, Unbounded, clock,
                                         version_set.current, <<>>),
                                call.projection).projection]
    /\ UNCHANGED dbvars

NextProjection == ScanProjection

SpecProjection == InitProjection /\ [][NextProjection]_vars

\* ------------------------------------------------------------ Scan::take
\* The (key, ts) pairs the tables of a scan hold.
MergeKeyTs == {<<1, 1>>, <<1, 0>>, <<2, 0>>}

\* The table of a source: each pair it holds, with the source's tag as the
\* record, so that an entry tells where it was read.
Table(tag, pairs) == {[k |-> p[1], ts |-> p[2], v |-> tag] : p \in pairs}

\* The tag of the Mutable; the tag of an Immutable or an SST is its FileId.
MutableTag == MaxFiles + 1

\* The layouts scanned: FileId 1 is the segment of level 1; 2, 3, 4 were handed
\* out after it, to segments of level 0 (newest first) and to the Immutables
\* of the deque (newest at the front).
Layouts == {[l0 |-> <<3, 2>>, imm |-> <<4>>], [l0 |-> <<2>>, imm |-> <<4, 3>>]}

LayoutFiles(layout) == {1} \cup {layout.l0[i] : i \in 1..Len(layout.l0)}

\* The Schema, the Version and the segments of a layout; content[tag] is the
\* set of pairs the source holds (no Immutable and no segment is empty).
InitMerge ==
    \E layout \in Layouts :
    \E content \in [1..4 -> (SUBSET MergeKeyTs) \ {{}}] :
    \E mem \in SUBSET MergeKeyTs :
        /\ schema = [mutable |->
                        [data |-> Table(MutableTag, mem),
                         size |-> Cardinality(mem) * RecordSize,
                         wal |-> [i \in 1..Cardinality(mem) |->
                                    [log_ty |-> "Full",
                                     k |-> Ordered(Table(MutableTag, mem))[i].k,
                                     ts |-> Ordered(Table(MutableTag, mem))[i].ts]]],
                     immutables |->
                        [i \in 1..Len(layout.imm) |->
                            [id |-> layout.imm[i],
                             rows |-> Immutable_from(Table(layout.imm[i],
                                                           content[layout.imm[i]]))]]]
        /\ version_set =
                [current |-> [num |-> 3,
                              levels |-> [l \in Levels |->
                                            IF l = 0 THEN layout.l0
                                            ELSE IF l = 1 THEN <<1>> ELSE <<>>]],
                 refs |-> [f \in FileIds |-> IF f \in LayoutFiles(layout) THEN 1 ELSE 0]]
        /\ store = [f \in FileIds |->
                        IF f \in LayoutFiles(layout)
                        THEN Ordered(Table(f, content[f])) ELSE <<>>]
        /\ disk = LayoutFiles(layout)
        /\ next_file = 5
        /\ rwlock = [readers |-> {}, writer |-> FALSE]
        /\ task_chan = 0
        /\ compactor = "recv"
        /\ clean_chan = <<>>
        /\ txn = [t \in Txns |-> IdleTxn]
        /\ lock_map = [k \in Keys |-> 0]
        /\ clock = 1
        /\ nwrites = 0
        /\ logical = {}
        /\ error_log = {}
        /\ call \in {[op |-> "scan", pc |-> "new", ts |-> ts, stream |-> <<>>] :
                        ts \in 0..1}

\* A scan of every key at call.ts is built and taken.
ScanTake ==
    /\ call.op = "scan" /\ call.pc = "new"
    /\ call' = [call EXCEPT
                    !.pc = "done",
                    !.stream = Scan_take(Scan_new(schema, Unbounded, Unbounded, call.ts,
                                                  version_set.current, <<>>),
                                         store)]
    /\ UNCHANGED dbvars

NextMerge == ScanTake

SpecMerge == InitMerge /\ [][NextMerge]_vars

\* A commit that has started is driven to its end: the lock it awaits is taken
\* once it is free, and the validation and the batch follow the last lock.
FairSpecTxn ==
    SpecTxn /\ \A t \in Txns : WF_vars(TxLock(t)) /\ WF_vars(TxCommit(t))

\* Writers and a reader: writers calling DB::write, a transaction that is
\* opened, reads under its guard and is dropped, the compactor and the cleaner.
NextFreeze ==
    \/ \E k \in Keys, ts \in {clock, clock + 1} : DBWrite(k, ts)
    \/ TxCurrent(1)
    \/ TxRead(1)
    \/ TxDrop(1)
    \/ Compactor
    \/ CleanerTask

SpecFreeze == Init /\ [][NextFreeze]_vars

\* Fair scheduling: the compactor task is scheduled whenever it can take a
\* step, and no reader keeps its guard on the Schema forever.
FairSpecFreeze == SpecFreeze /\ WF_vars(Compactor) /\ WF_vars(TxDrop(1))

\* ------------------------------------------------------------ reading the state
\* The versions of key k the logical map holds at snapshot ts, and the newest.
VersionsAt(k, ts) == {e \in logical : e.k = k /\ e.ts <= ts}
NewestAt(k, ts) == CHOOSE e \in VersionsAt(k, ts) : \A o \in VersionsAt(k, ts) : o.ts <= e.ts

\* The key -> value map the logical map holds at snapshot ts.
LogicalMap(ts) ==
    {<<k, NewestAt(k, ts).v>> : k \in {c \in Keys : VersionsAt(c, ts) # {}
                                                    /\ NewestAt(c, ts).v # None}}

\* A get through the Schema and the current Version; a tombstone is None.
Get(k, ts) ==
    LET got == Schema_get(schema, version_set.current, store, k, ts)
    IN IF got # <<>> /\ got[1].v = None THEN <<>> ELSE got

\* The rows of every SST the Version references.
VersionRows(version) ==
    UNION {{store[f][i] : i \in 1..Len(store[f])} : f \in VersionFiles(version)}

ImmutableRows ==
    UNION {{schema.immutables[j].rows[i] : i \in 1..Len(schema.immutables[j].rows)} :
                j \in 1..Len(schema.immutables)}

\* The key -> value map a full scan at ts shows: per key the first entry of
\* the merged stream, unless it is a tombstone.
ScanMap(sch, version, ts) ==
    LET stream == Scan_take(Scan_new(sch, Unbounded, Unbounded, ts, version, <<>>), store)
        first(i) == \A j \in 1..(i - 1) : stream[j].k # stream[i].k
    IN {<<stream[i].k, stream[i].v>> :
            i \in {c \in 1..Len(stream) : first(c) /\ stream[c].v # None}}

\* ------------------------------------------------------------ claims
\* C1: MVCC visibility.  In every reachable state, for every key K and
\* snapshot ts' at which K has a version, Schema::get through the current
\* Version returns the version of K with the greatest ts <= ts' (with the
\* record last written at that (K, ts)), whichever of the Mutable, the
\* Immutables and the SSTs holds it, and no get returns an entry with ts > ts'.
C1_MvccVisibility ==
    \A k \in Keys, ts \in Timestamps :
        LET got == Schema_get(schema, version_set.current, store, k, ts)
        IN /\ (got # <<>> => got[1].ts <= ts)
           /\ (VersionsAt(k, ts) # {} => got = <<NewestAt(k, ts)>>)

\* A key has its newest version in the Mutable and an older one only in an
\* SST, and the get at the older snapshot returns the SST's version.
C1_Witness ==
    \E k \in Keys, ts \in Timestamps :
        /\ \E e \in schema.mutable.data : e.k = k /\ e.ts > ts
        /\ VersionsAt(k, ts) # {}
        /\ NewestAt(k, ts) \in VersionRows(version_set.current)
        /\ NewestAt(k, ts) \notin ImmutableRows
        /\ Schema_get(schema, version_set.current, store, k, ts) = <<NewestAt(k, ts)>>

\* C2: tombstone shadowing.  For every tombstone of key K at ts in the
\* logical map: a get of K at a snapshot ts' >= ts with no newer write of K in
\* (ts, ts'] returns None, and a get at a snapshot ts' < ts returns the
\* version that was visible before the remove.
C2_TombstoneShadowing ==
    \A e \in logical :
        e.v = None =>
            \A ts \in Timestamps :
                /\ (ts >= e.ts /\ NewestAt(e.k, ts) = e => Get(e.k, ts) = <<>>)
                /\ (ts < e.ts /\ VersionsAt(e.k, ts) # {} /\ NewestAt(e.k, ts).v # None
                        => Get(e.k, ts) = <<NewestAt(e.k, ts)>>)

\* A tombstone in the Mutable shadows a version that only an SST holds: the
\* get at the tombstone's snapshot is None, the get before it is the version.
C2_Witness ==
    \E e \in schema.mutable.data :
        /\ e.v = None /\ e.ts > 0
        /\ VersionsAt(e.k, e.ts - 1) # {}
        /\ NewestAt(e.k, e.ts - 1).v # None
        /\ NewestAt(e.k, e.ts - 1) \in VersionRows(version_set.current)
        /\ NewestAt(e.k, e.ts - 1) \notin ImmutableRows
        /\ Get(e.k, e.ts) = <<>>
        /\ Get(e.k, e.ts - 1) = <<NewestAt(e.k, e.ts - 1)>>

\* C3: no write is lost or duplicated.  For every open transaction with an
\* empty buffer, the full scan through its captured Version and Schema guard
\* shows exactly the logical key -> value map at its snapshot, and the get of
\* each key of that map returns its entry.
C3_NoWriteLost ==
    \A t \in Txns :
        txn[t].pc = "open" /\ Buffered(t) = {} =>
            /\ ScanMap(schema, txn[t].version, txn[t].snapshot_ts)
                    = LogicalMap(txn[t].snapshot_ts)
            /\ \A k \in Keys :
                    VersionsAt(k, txn[t].snapshot_ts) # {}
                    /\ NewestAt(k, txn[t].snapshot_ts).v # None
                        => Transaction_get(t, k) = <<NewestAt(k, txn[t].snapshot_ts)>>

\* C5: the open captures the Version and the Schema guard atomically: every
\* record written is reachable through the pair an open transaction holds,
\* in the Mutable, in an Immutable of the deque or in an SST of its Version.
C5_AtomicOpen ==
    \A t \in Txns :
        txn[t].pc = "open" =>
            logical \subseteq
                (schema.mutable.data \cup ImmutableRows \cup VersionRows(txn[t].version))

\* C4: write-write conflict under snapshot isolation.  Of two transactions
\* that opened at the same snapshot_ts, buffered a write to a common key and
\* both committed, exactly one succeeded and the other failed with
\* WriteConflict (both fail only when a third committer of one of their keys
\* succeeded), and the step in which a commit fails leaves the Schema as it was.
Committed(t) == txn[t].pc = "done" /\ txn[t].result \in {"Ok", "WriteConflict"}

Rivals(a, b) ==
    /\ a # b
    /\ Committed(a) /\ Committed(b)
    /\ txn[a].snapshot_ts = txn[b].snapshot_ts
    /\ Buffered(a) \cap Buffered(b) # {}

C4_OneWinner ==
    \A a, b \in Txns :
        Rivals(a, b) =>
            /\ ~(txn[a].result = "Ok" /\ txn[b].result = "Ok")
            /\ \/ txn[a].result = "Ok"
               \/ txn[b].result = "Ok"
               \/ \E c \in Txns \ {a, b} :
                        /\ txn[c].result = "Ok"
                        /\ Buffered(c) \cap (Buffered(a) \cup Buffered(b)) # {}

C4_LoserStep ==
    \A t \in Txns :
        txn[t].result # "WriteConflict" /\ txn'[t].result = "WriteConflict"
            => schema' = schema /\ logical' = logical

C4_WriteConflict == []C4_OneWinner /\ [][C4_LoserStep]_vars

\* Two rivals have committed: one succeeded, the other failed with
\* WriteConflict.
C4_Witness ==
    \E a, b \in Txns :
        Rivals(a, b) /\ txn[a].result = "Ok" /\ txn[b].result = "WriteConflict"

\* ------------------------------------------------------------ files
\* The transactions that hold a handle on a Version.
Holds(t) == txn[t].pc \in {"current", "open", "locking"}

\* The number of reachable Versions that reference file f: the current one
\* and the one of every transaction that holds a handle.
Holders(f) ==
    (IF f \in VersionFiles(version_set.current) THEN 1 ELSE 0)
        + Cardinality({t \in Txns : Holds(t) /\ f \in VersionFiles(txn[t].version)})

\* The files on the provider that the current Version does not reference.
Orphans == disk \ VersionFiles(version_set.current)

\* C6: no file in use is deleted.  Every file that the current Version or the
\* Version of a live transaction references exists on the provider; the
\* reference count the VersionSet keeps for a file is the number of reachable
\* Versions that reference it; and a step that removes a file from the
\* provider removes one that no reachable Version references.
C6_InUseOnDisk ==
    /\ \A f \in FileIds : Holders(f) > 0 => f \in disk
    /\ \A f \in FileIds : version_set.refs[f] = Holders(f)

C6_DeleteStep ==
    \A f \in disk \ disk' : Holders(f) = 0 /\ version_set.refs[f] = 0

C6_NoFileInUseDeleted == []C6_InUseOnDisk /\ [][C6_DeleteStep]_vars

\* A live transaction holds a file that the current Version has superseded:
\* the file is kept on the provider for it.
C6_Witness ==
    \E t \in Txns : \E f \in VersionFiles(txn[t].version) :
        /\ Holds(t)
        /\ f \notin VersionFiles(version_set.current)
        /\ f \in disk
        /\ clean_chan = <<>>

\* C7: superseded files are eventually collected.  Once the compactor stays
\* idle with no Freeze pending and no transaction holds a Version, from some
\* point on the Cleaner's channel is empty and no orphan file is left.
Quiescent ==
    /\ compactor = "recv"
    /\ task_chan = 0
    /\ \A t \in Txns : ~Holds(t)

Collected == clean_chan = <<>> /\ Orphans = {}

VersionView(version, files) ==
    Scan_take(Scan_new(EmptySchema, Unbounded, Unbounded, MaxTs, version, <<>>), files)

\* C9: Version snapshot stability.  While a transaction holds a Version, the
\* Version it holds, the files the Version references and what a scan reads
\* of them stay the same, whatever the compactor publishes; and the current
\* Version is replaced by a Version with a greater number, never changed in
\* place.
C9_Step ==
    /\ \A t \in Txns :
            Holds(t) /\ Holds(t)' =>
                /\ txn'[t].version = txn[t].version
                /\ VersionView(txn[t].version, store') = VersionView(txn[t].version, store)
                /\ VersionFiles(txn[t].version) \subseteq disk'
    /\ version_set'.current # version_set.current =>
            version_set'.current.num > version_set.current.num

C9_SnapshotStability == [][C9_Step]_vars

\* A transaction with its guard holds a Version with files while the compactor
\* has published a newer one with other files.
C9_Witness ==
    \E t \in Txns :
        /\ txn[t].pc = "open"
        /\ txn[t].version.num < version_set.current.num
        /\ VersionFiles(txn[t].version) # {}
        /\ VersionFiles(txn[t].version) # VersionFiles(version_set.current)

\* C10: Freeze coalescing.  At most one Freeze is pending; a write that takes
\* the Mutable over max_mem_table_size leaves exactly one Freeze pending, any
\* other write leaves the channel as it was; and a full channel never keeps a
\* writer from writing.
C10_Pending ==
    /\ task_chan \in 0..TaskChanCap
    /\ (task_chan = TaskChanCap /\ CanRead /\ nwrites < MaxWrites)
            => ENABLED (\E k \in Keys : DBWrite(k, clock))

C10_WriteStep ==
    nwrites' > nwrites =>
        IF schema'.mutable.size > max_mem_table_size
        THEN task_chan' = TaskChanCap
        ELSE task_chan' = task_chan

C10_FreezeCoalescing == []C10_Pending /\ [][C10_WriteStep]_vars

\* The compactor has not received the pending Freeze, and two writes in a row
\* took the Mutable over the threshold: the second found the channel full.
C10_Witness ==
    /\ compactor = "recv"
    /\ task_chan = TaskChanCap
    /\ next_file <= MaxFiles
    /\ schema.mutable.size >= max_mem_table_size + 2 * RecordSize

\* ------------------------------------------------------------ scans
\* The greatest limit a scan is given.
MaxLimit == 1

\* The user keys a stream yields.
StreamKeys(stream) == {stream[i].k : i \in 1..Len(stream)}

\* A scan of every key at the latest snapshot through the Schema and the
\* current Version, built with limit(Some(n)).
LimitedScan(n) ==
    Scan_take(Scan_limit(Scan_new(schema, Unbounded, Unbounded, MaxTs,
                                  version_set.current, <<>>), n),
              store)

\* C11: scan limit.  A scan built with limit = n yields entries of at most n
\* distinct user keys, the entries of the Mutable and the Immutables
\* included; with limit = 0 it yields nothing.
C11_ScanLimit ==
    \A n \in 0..MaxLimit : Cardinality(StreamKeys(LimitedScan(n))) <= n

\* C12: a get of key K returns an entry only when the entry's user key is K;
\* with no version of K at or below the snapshot it returns None, whatever
\* greater keys the scanned range holds.
C12_GetExactKey ==
    \A k \in Keys : \A ts \in Timestamps :
        LET got == Schema_get(schema, version_set.current, store, k, ts)
        IN got # <<>> => got[1].k = k

\* ------------------------------------------------------------ locks
\* The key a committing transaction locks next.
NextKey(t) ==
    CHOOSE c \in Buffered(t) \ Locked(t) : \A o \in Buffered(t) \ Locked(t) : c <= o

\* Transaction a, in the middle of its commit, awaits a lock that b holds.
WaitsFor(a, b) ==
    /\ a # b
    /\ txn[a].pc = "locking"
    /\ Buffered(a) \ Locked(a) # {}
    /\ lock_map[NextKey(a)] = b

RECURSIVE WaitPath(_, _, _)
WaitPath(a, b, n) ==
    \/ WaitsFor(a, b)
    \/ n > 0 /\ \E c \in Txns : WaitsFor(a, c) /\ WaitPath(c, b, n - 1)

\* The timestamps and the write budget left allow the commit of t to apply.
CommitRoom(t) == clock < MaxTs /\ nwrites + Cardinality(Buffered(t)) <= MaxWrites

\* C13: commit is deadlock-free.  The locks a committing transaction holds
\* are all below the key it awaits, no cycle of waiting transactions is
\* reachable, a transaction that ended holds no lock, and every commit that
\* has started ends (batch applied, WriteConflict, or dropped).
C13_NoWaitCycle ==
    /\ \A t \in Txns : ~WaitPath(t, t, NumTxns)
    /\ \A t \in Txns :
            txn[t].pc = "locking" /\ Buffered(t) \ Locked(t) # {}
                => \A k \in Locked(t) : k < NextKey(t)
    /\ \A t \in Txns : txn[t].pc = "done" => Locked(t) = {}

C13_DeadlockFree ==
    /\ []C13_NoWaitCycle
    /\ \A t \in Txns :
            (txn[t].pc = "locking") ~> (txn[t].pc = "done" \/ ~CommitRoom(t))

\* Two commits with overlapping key sets are in progress: one holds a lock
\* and awaits a key the other holds.
C13_Witness ==
    \E a, b \in Txns : WaitsFor(a, b) /\ Locked(a) # {} /\ Locked(b) # {}

\* ------------------------------------------------------------ errors
\* C14: the compactor halts on a fatal error.  Once check_then_compaction has
\* failed with an error that would violate a Version invariant the compactor
\* runs no compaction any more: it stays at its recv, and neither the
\* Version nor the deque of Immutables changes.
C14_Halted == "Version" \in error_log => compactor = "recv"

C14_NoCompaction ==
    "Version" \in error_log =>
        /\ version_set'.current = version_set.current
        /\ schema'.immutables = schema.immutables

C14_HaltOnFatal == []C14_Halted /\ [][C14_NoCompaction]_vars

\* ------------------------------------------------------------ batches
\* The log type the framing gives record i of n.
FrameType(i, n) ==
    IF n = 1 THEN "Full" ELSE IF i = 1 THEN "First" ELSE IF i = n THEN "Last" ELSE "Middle"

\* The WAL entries of a batch: its keys in iterator order, one timestamp.
Frames(keys, ts) ==
    [i \in 1..Len(keys) |-> [log_ty |-> FrameType(i, Len(keys)), k |-> keys[i], ts |-> ts]]

\* C15: batch log framing.  write_batch over n records appends them to the
\* WAL in iterator order, all at the commit ts, as Full when n = 1 and as
\* First, Middle x (n - 2), Last when n >= 2; with n = 0 it writes nothing and
\* sends no Freeze.
C15_BatchStep ==
    \A keys \in BatchInputs : \A ts \in Timestamps :
        DBWriteBatch(keys, ts) =>
            /\ schema'.mutable.wal = schema.mutable.wal \o Frames(keys, ts)
            /\ schema'.mutable.size = schema.mutable.size + Len(keys) * RecordSize
            /\ keys = <<>> => schema' = schema /\ task_chan' = task_chan

C15_BatchFraming == [][C15_BatchStep]_vars

\* A batch of three records is in the WAL: First, Middle, Last.
C15_Witness ==
    \E i \in 1..Len(schema.mutable.wal) :
        /\ i + 2 <= Len(schema.mutable.wal)
        /\ schema.mutable.wal[i].log_ty = "First"
        /\ schema.mutable.wal[i + 1].log_ty = "Middle"
        /\ schema.mutable.wal[i + 2].log_ty = "Last"

\* ------------------------------------------------------------ WAL entries
\* C16: WAL record entry round trip.  Decoding the bytes that encoding an
\* entry produced yields the same key value, the same timestamp and the same
\* optional record; None stays None.
C16_RoundTrip ==
    call.op = "record_entry" /\ call.pc = "decoded" =>
        /\ call.decoded.key.value = call.entry.key.value
        /\ call.decoded.key.ts = call.entry.key.ts
        /\ call.decoded.record = call.entry.record
        /\ RecordEntry_decode(RecordEntry_encode(call.entry)) = call.entry

\* An entry with a key, a timestamp of more than one byte and no record has
\* been encoded and decoded.
C16_Witness ==
    /\ call.op = "record_entry" /\ call.pc = "decoded"
    /\ call.entry.key.value # <<>>
    /\ call.entry.key.ts > 255
    /\ call.entry.record = <<>>
    /\ Len(call.bytes) = Len(call.entry.key.value) + 6

\* ------------------------------------------------------------ freeze
\* Rows in (key ascending, ts descending) order, no (key, ts) twice.
StrictlyOrdered(rows) == \A i \in 1..(Len(rows) - 1) : TsLess(rows[i], rows[i + 1])

\* The Immutable a freeze of the Schema's Mutable builds.
Frozen == Freeze(schema, next_file).immutables[1].rows

Live(stream) ==
    {[k |-> stream[i].k, v |-> stream[i].v] :
        i \in {j \in 1..Len(stream) :
                /\ stream[j].v # None
                /\ \A h \in 1..(j - 1) : stream[h].k # stream[j].k}}

\* The merge at the maximum timestamp of the segments `ids` holding `files`.
MergedAt(ids, files) ==
    MergeStream_from_vec([i \in 1..Len(ids) |->
        SsTable_scan(files[ids[i]], Unbounded, Unbounded, MaxTs, NoLimit)])

\* The step applies the edit of a major compaction.
MajorApplied ==
    compactor = "major" /\ version_set'.current.num > version_set.current.num

\* C18: major compaction preserves the live set.  The output segments,
\* scanned at the maximum timestamp, hold the live (key, value) pairs that
\* the merge of the inputs holds, and the Version the edit produces shows the
\* newest snapshot what the Version before it showed.
C18_MajorStep ==
    MajorApplied =>
        LET l == MajorLevel(version_set.current)
            inputs == MajorInputs(version_set.current, store, l)
            outputs == SelectSeq(version_set'.current.levels[l + 1],
                                 LAMBDA f : f \notin VersionFiles(version_set.current))
        IN /\ Live(MergedAt(outputs, store')) = Live(MergedAt(inputs, store))
           /\ Live(VersionView(version_set'.current, store'))
                    = Live(VersionView(version_set.current, store))

Shifted(projection) == {projection[i] + EngineColumns : i \in 1..Len(projection)}

\* C19: projection keeps the engine columns and the key.  As stated, with
\* primary_key_index() read as the key's position among the user columns: the
\* mask holds columns 0 and 1, the column primary_key_index() + 2, and the
\* column i + 2 of each user column i listed, and no other.
C19_KeyAsUserPosition ==
    call.op = "projection" /\ call.pc = "done" =>
        call.mask = {0, 1, primary_key_index + EngineColumns} \cup Shifted(call.projection)

\* C19, amended: the mask holds columns 0 and 1, the key column, and the
\* column i + 2 of each user column i listed, and no other; primary_key_index()
\* is the key's index in the whole schema, engine columns included, and is
\* added to the mask as it is.
C19_ProjectionKeepsKey ==
    call.op = "projection" /\ call.pc = "done" =>
        /\ {0, 1, KeyColumn} \subseteq call.mask
        /\ call.mask = {0, 1, primary_key_index} \cup Shifted(call.projection)
        /\ \A i \in UserColumns :
                (i + EngineColumns) \in call.mask
                    <=> (i + EngineColumns = KeyColumn
                            \/ \E j \in 1..Len(call.projection) : call.projection[j] = i)

\* A projection that lists a user column other than the key has been applied.
C19_Witness ==
    /\ call.op = "projection" /\ call.pc = "done"
    /\ call.projection = <<2>>
    /\ call.mask = {0, 1, 2, 4}

\* ------------------------------------------------------------ compactor task
\* An execution of check_then_compaction is in progress.
Running == compactor # "recv"

\* C20: at most one compaction runs at any time.  A Freeze is taken from the
\* channel only while no execution of check_then_compaction is in progress,
\* and taking it starts one; the deque of Immutables and the current Version
\* change only inside that execution or by its last step, whatever the
\* writers send meanwhile.
C20_Step ==
    /\ task_chan' < task_chan => ~Running /\ Running'
    /\ Running /\ Running' => task_chan' >= task_chan
    /\ (schema'.immutables # schema.immutables
            \/ version_set'.current # version_set.current) => Running

C20_SingleCompaction == [][C20_Step]_vars

\* A compaction is running and the writers have sent the next Freeze, which
\* waits in the channel.
C20_Witness ==
    /\ Running
    /\ compactor \in {"flush", "drain", "major"}
    /\ task_chan = TaskChanCap
    /\ schema.mutable.size > max_mem_table_size

\* ------------------------------------------------------------ conflict detection
\* The transaction holds the Schema guard it was opened with.
Guarded(t) == txn[t].pc \in {"open", "locking"}

\* The entries written after transaction t took its snapshot.
WrittenSince(t) == {e \in logical : e.ts > txn[t].snapshot_ts}

\* C21: conflict detection never misses a write because of a flush.  For every
\* transaction that holds its guard, each entry written after its snapshot is
\* in the Mutable or in an Immutable of the deque, and check_conflict of a key
\* is true exactly when such an entry of the key was written; while the guard
\* is held no step takes an entry out of the Mutable or changes the deque.
C21_InMemory ==
    \A t \in Txns :
        Guarded(t) =>
            /\ WrittenSince(t) \subseteq (schema.mutable.data \cup ImmutableRows)
            /\ \A k \in Keys :
                    Schema_check_conflict(schema, k, txn[t].snapshot_ts)
                        <=> \E e \in WrittenSince(t) : e.k = k

C21_GuardStep ==
    \A t \in Txns :
        Guarded(t) /\ Guarded(t)' =>
            /\ schema'.immutables = schema.immutables
            /\ schema.mutable.data \subseteq schema'.mutable.data

C21_NoMissedConflict == []C21_InMemory /\ [][C21_GuardStep]_vars

\* Another committer has taken the Mutable over the threshold after the
\* transaction opened, and the compactor awaits the write guard for the
\* freeze while the transaction, about to validate a key that was written,
\* holds its guard.
C21_Witness ==
    \E t \in Txns :
        /\ txn[t].pc = "locking"
        /\ \E e \in WrittenSince(t) : e.k \in Buffered(t)
        /\ schema.mutable.size > max_mem_table_size
        /\ compactor = "freeze"
        /\ rwlock.writer

\* ------------------------------------------------------------ Freeze wake-up
\* The Mutable is above max_mem_table_size.
Excess == schema.mutable.size > max_mem_table_size

\* C22: no lost Freeze wake-up.  A write that leaves the Mutable above the
\* threshold leaves a Freeze pending, whether its own try_send was accepted or
\* dropped; under fair scheduling a pending Freeze is received, which starts
\* a check_then_compaction after that write's insert; and a Mutable above the
\* threshold always has a Freeze pending or a compaction that has not made
\* its freeze check yet (as long as a FileId is left for the freeze).
C22_WriteStep == (nwrites' > nwrites /\ Excess') => task_chan' = TaskChanCap

C22_CheckAhead ==
    Excess => task_chan = TaskChanCap \/ compactor = "freeze" \/ next_file > MaxFiles

C22_NoLostWakeup ==
    /\ [][C22_WriteStep]_vars
    /\ []C22_CheckAhead
    /\ (task_chan = TaskChanCap) ~> (task_chan = 0)

\* The compactor has received a Freeze and awaits its freeze check; a write
\* sent the next Freeze, and the write after it found the channel full.
C22_Witness ==
    /\ compactor = "freeze"
    /\ task_chan = TaskChanCap
    /\ schema.mutable.size >= max_mem_table_size + 3 * RecordSize

\* ------------------------------------------------------------ freeze swap
\* The in-memory tables that hold entry e: 0 is the Mutable, i the i-th
\* Immutable of the deque.
TablesOf(e) ==
    (IF e \in schema.mutable.data THEN {0} ELSE {})
        \cup {i \in 1..Len(schema.immutables) :
                \E j \in 1..Len(schema.immutables[i].rows) : schema.immutables[i].rows[j] = e}

\* The frames of a WAL that belong to batches of two records or more.
BatchFrames(wal) == SelectSeq(wal, LAMBDA f : f.log_ty # "Full")

\* The frames after the last Last: those of a batch that is not complete.
RECURSIVE OpenFrames(_)
OpenFrames(frames) ==
    IF frames = <<>> \/ frames[Len(frames)].log_ty = "Last" THEN <<>>
    ELSE OpenFrames(SubSeq(frames, 1, Len(frames) - 1)) \o <<frames[Len(frames)]>>

\* The frames of the records the running write_batch has written so far.
FramesWritten ==
    IF call.op = "write_batch" /\ call.pc = "writing" /\ Len(call.records) >= 2
          /\ call.i < Len(call.records)
    THEN [j \in 1..call.i |->
            [log_ty |-> BatchLogType(j, Len(call.records)), k |-> call.records[j].k,
             ts |-> call.ts]]
    ELSE <<>>

\* C23: the freeze swap is linearized with writes.  Every entry written is
\* in at most one in-memory table, and in one until an SST holds it; the
\* records a running write_batch has written are all in the Mutable that is
\* installed, which holds no other incomplete batch; the writer holds the
\* guard while it inserts; and no step changes an Immutable of the deque.
C23_OneTable ==
    /\ \A e \in logical :
            /\ Cardinality(TablesOf(e)) <= 1
            /\ TablesOf(e) = {} => e \in VersionRows(version_set.current)
    /\ OpenFrames(BatchFrames(schema.mutable.wal)) = FramesWritten
    /\ (call.op = "write_batch" /\ call.pc = "writing") => Writer \in rwlock.readers

C23_SwapStep ==
    /\ Len(schema'.immutables) >= Len(schema.immutables) =>
            SubSeq(schema'.immutables,
                   Len(schema'.immutables) - Len(schema.immutables) + 1,
                   Len(schema'.immutables)) = schema.immutables
    /\ Len(schema'.immutables) > Len(schema.immutables) =>
            /\ Writer \notin rwlock.readers
            /\ schema'.immutables[1].rows = Immutable_from(schema.mutable.data)

C23_SwapLinearized == []C23_OneTable /\ [][C23_SwapStep]_vars

\* A write_batch of three records has written two of them into a Mutable
\* above the threshold, and the compactor, which has received a Freeze, awaits
\* the write guard behind it.
C23_Witness ==
    /\ call.op = "write_batch" /\ call.pc = "writing"
    /\ Len(call.records) = 3 /\ call.i = 2
    /\ schema.mutable.size > max_mem_table_size
    /\ compactor = "freeze"
    /\ rwlock.writer

\* ------------------------------------------------------------ merge
\* Ids in descending order: the newest first.
RECURSIVE NewestFirst(_)
NewestFirst(S) ==
    IF S = {} THEN <<>>
    ELSE LET m == CHOOSE x \in S : \A y \in S : x >= y IN <<m>> \o NewestFirst(S \ {m})

RowSet(rows) == {rows[i] : i \in 1..Len(rows)}

\* The sources of a scan in the order of precedence: the Mutable, the
\* Immutables newest first, the segments of level 0 newest first, then each
\* deeper level.
SourcesByPrecedence ==
    LET imm == NewestFirst({schema.immutables[i].id : i \in 1..Len(schema.immutables)})
        l0 == NewestFirst({version_set.current.levels[0][i] :
                                i \in 1..Len(version_set.current.levels[0])})
    IN <<schema.mutable.data>>
        \o [i \in 1..Len(imm) |->
                RowSet((CHOOSE m \in RowSet(schema.immutables) : m.id = imm[i]).rows)]
        \o [i \in 1..Len(l0) |-> RowSet(store[l0[i]])]
        \o [l \in 1..MAX_LEVEL |->
                UNION {RowSet(store[f]) : f \in RowSet(version_set.current.levels[l])}]

\* The sources that hold (k, ts), and the entry of the first of them.
HoldersOf(k, ts) ==
    {i \in 1..Len(SourcesByPrecedence) :
        \E e \in SourcesByPrecedence[i] : e.k = k /\ e.ts = ts}

Winner(k, ts) ==
    LET first == CHOOSE i \in HoldersOf(k, ts) : \A o \in HoldersOf(k, ts) : i <= o
    IN CHOOSE e \in SourcesByPrecedence[first] : e.k = k /\ e.ts = ts

\* C24: merge order and precedence.  The merged scan emits its entries in
\* (key ascending, ts descending) order, each (key, ts) once, none above the
\* snapshot; it emits every (key, ts) a source holds at or below the snapshot,
\* and the entry emitted for it is the one of the source of highest
\* precedence that holds it: Mutable, Immutables newest first, level 0 newest
\* first, then level 1.
C24_MergeOrder ==
    call.op = "scan" /\ call.pc = "done" =>
        /\ StrictlyOrdered(call.stream)
        /\ \A i \in 1..Len(call.stream) : call.stream[i].ts <= call.ts
        /\ RowSet(call.stream) =
                {Winner(p[1], p[2]) :
                    p \in {q \in MergeKeyTs : q[2] <= call.ts /\ HoldersOf(q[1], q[2]) # {}}}

\* Two Immutables, the segment of level 0 and the segment of level 1 hold
\* the same (key, ts), the Mutable does not: the scan has emitted the entry of
\* the Immutable at the front of the deque.
C24_Witness ==
    /\ call.op = "scan" /\ call.pc = "done"
    /\ Len(schema.immutables) = 2
    /\ HoldersOf(1, 1) = {2, 3, 4, 5}
    /\ \E i \in 1..Len(call.stream) :
            call.stream[i] = [k |-> 1, ts |-> 1, v |-> schema.immutables[1].id]

\* ------------------------------------------------------------ failed batches
\* The entries the write_batch in `call` has written.
BatchWritten ==
    {[k |-> call.records[j].k, ts |-> call.ts, v |-> call.records[j].v] : j \in 1..call.i}

\* What a scan of every key at the latest snapshot reads.
FullScan ==
    Scan_take(Scan_new(schema, Unbounded, Unbounded, MaxTs, version_set.current, <<>>),
              store)

\* C25: a batch is applied all-or-nothing.  Once write_batch has returned an
\* error, no record of the batch is in the Mutable and no scan reads one.
C25_AllOrNothing ==
    call.op = "write_batch" /\ call.pc = "failed" =>
        /\ BatchWritten \cap schema.mutable.data = {}
        /\ BatchWritten \cap RowSet(FullScan) = {}

\* ------------------------------------------------------------ serialization errors
\* C26: serialization failures are reported as error values.  A call of
\* RecordEntry::encode or RecordEntry::decode ends with Ok or with Err returned
\* to the caller, never with a panic: with Err when the writer fails or the
\* bytes end early, and encode with Ok on every value when the writer does
\* not fail.
C26_ErrorsReturned ==
    call.op \in {"encode", "decode"} /\ call.pc = "done" =>
        /\ call.outcome \in {"Ok", "Err"}
        /\ (call.op = "encode" /\ call.fail = 0) => call.outcome = "Ok"
        /\ (call.op = "encode" /\ call.fail # 0) => call.outcome = "Err"
        /\ (call.op = "decode" /\ call.bytes \notin {RecordEntry_encode(e) : e \in RecordEntries})
                => call.outcome = "Err"

====
